---- MODULE Spec2Model ----
(***************************************************************************)
(* The toko storefront backend: orders, events, products, users, routes.   *)
(*                                                                         *)
(* The repository holds two revisions of the order service and of the      *)
(* RabbitMQ client:                                                        *)
(*   svcRev = 1  order_service.go lines   1-131 (PublishOrderCreated)      *)
(*   svcRev = 2  order_service.go lines 133-270 (nil check, Publish)       *)
(*   mqRev  = 1  unnamed/part_000 lines   1-176 (per-publish channel,      *)
(*               exchange "order", consumer on queue "orders", auto-ack)   *)
(*   mqRev  = 2  unnamed/part_000 lines 178-371 (shared channel, default   *)
(*               exchange, queue "order_queue", manual ack)                *)
(* Every combination that type-checks is a build of the program.           *)
(*                                                                         *)
(* The routes are wired in two ways: main.go (in-memory repositories, a    *)
(* RabbitMQ client, no middleware) and setupApp (gorm product and user     *)
(* repositories, a nil client, routes behind AuthRequired); models.User    *)
(* has a revision with unique indexes (userModelRev = 1) and one without.  *)
(*                                                                         *)
(* Specifications:                                                         *)
(*   Spec          concurrent CreateOrder calls                            *)
(*   ConsumerSpec  the consumer loop and the shutdown of main              *)
(*   SystemSpec    CreateOrder calls beside the consumer, on one client    *)
(*   StartupSpec   main from rabbitmq.NewClient on                         *)
(*   StoreSpec     an order, status updates and product rewrites           *)
(*   HttpSpec      requests to the order routes through the middleware     *)
(*   UserSpec      concurrent RegisterUser calls                           *)
(*   CatalogSpec   product Create / Update / Delete on either repository   *)
(*   OversellSpec  CreateOrder calls that share one product's stock        *)
(*   FrameSpec     one CreateOrder call, status updates, product rewrites  *)
(*   StatusSpec    two orders and their status updates, as time passes     *)
(*   RequestSpec   POST /api/v1/orders with the whole request body         *)
(*   NilClientSpec either revision of the service built with a nil client  *)
(***************************************************************************)
EXTENDS Integers, Sequences, FiniteSets, TLC

VARIABLES
    svcRev,       \* revision of OrderService in the build
    mqRev,        \* revision of rabbitmq.Client in the build
    mqClientNil,  \* OrderService was constructed with a nil *rabbitmq.Client
    orderRepoImpl,\* the OrderRepository injected: "mock", or one whose Create can fail
    products,     \* MockProductRepository.products: id -> Product
    orders,       \* MockOrderRepository.orders: id -> Order
    createdBy,    \* history: order id -> the CreateOrder call that stored it
    nextUUID,     \* uuid.New(): the number of identifiers generated so far
    calls,        \* one CreateOrder invocation per caller: position and locals
    published,    \* history: messages the broker accepted from the publisher
    queues,       \* broker: queue name -> ready messages, oldest first
    handlerMode,  \* the messageHandler passed to ConsumeOrderEvents
    conn,         \* Client.conn: "open" or "closed"
    channels,     \* AMQP channels: c.channel ("client"), the consumer's own ("consume")
    consumerPc,   \* main's consumer goroutine: "starting", "streaming", "failed"
    unacked,      \* broker: deliveries on the consumer's channel awaiting an ack
    msgs,         \* the deliveries Go channel returned by ch.Consume, oldest first
    loop,         \* the `for msg := range msgs` goroutine: position and current delivery
    mainPc,       \* main: "serving", "closing", "closed", "exited"
    arrived,      \* history: messages that reached the consumer's queue
    deliveryLog,  \* history: deliveries pushed to the consumer, in order
    handlerLog,   \* history: handler invocations, in start order
    settleLog,    \* history: acks and nacks, in order
    closeLog,     \* history: the steps of Client.Close, with the channels open before each
    wiring,       \* how the routes are registered: "main" (main.go) or "setupApp"
    productRepoImpl, \* the ProductRepository injected: "mock" or "gorm"
    userModelRev, \* revision of models.User: 1 has the uniqueIndex tags, 2 has none
    softDeleted,  \* gorm: ids of product rows whose deleted_at is set
    statusCall,   \* history: the most recent UpdateOrderStatus call
    productCall,  \* history: the most recent product repository write
    catalog,      \* history: the id -> Product map the product writes describe
    request,      \* history: the most recent HTTP request to an order route
    users,        \* the users table: rows in insertion order
    regs,         \* one RegisterUser invocation per caller: position and locals
    now           \* time.Now(): the clock, in ticks

\* The consumer, its connection and the process's life.
consumerVars == <<handlerMode, closeLog, conn, channels, consumerPc, unacked, msgs, loop, mainPc,
                  arrived, deliveryLog, handlerLog, settleLog>>

\* Order status updates, the product catalogue, HTTP requests and users.
apiVars == <<softDeleted, statusCall, productCall, catalog, request, users, regs, now>>

vars == <<svcRev, mqRev, mqClientNil, orderRepoImpl, wiring, productRepoImpl, userModelRev,
          products, orders, createdBy, nextUUID, calls, published, queues, consumerVars,
          apiVars>>

\* What is fixed when the process is built and wired (main.go, setupApp).
build == <<svcRev, mqRev, mqClientNil, orderRepoImpl, wiring, productRepoImpl, userModelRev>>

\* ------------------------------------------------------------------ bounds

\* Longest item list of a request.
MaxItems == 2

\* Concurrent CreateOrder invocations (HTTP requests in flight).
Callers == {"c1", "c2"}

UserIDs == {"u1"}

\* (product reference, quantity) pairs a request item is drawn from: within
\* stock, above the stock of prod-1 (10), and a product that is not stored.
ItemChoices ==
    { [ProductID |-> "prod-1", Quantity |-> 1],
      [ProductID |-> "prod-2", Quantity |-> 2],
      [ProductID |-> "prod-1", Quantity |-> 11],
      [ProductID |-> "prod-x", Quantity |-> 1] }

ItemLists == UNION { [1..n -> ItemChoices] : n \in 1..MaxItems }

\* ------------------------------------------------------------ product store

\* main.go seedProducts: the product repository after construction.
SeedProducts ==
    [ id \in {"prod-1", "prod-2", "prod-3"} |->
        CASE id = "prod-1" -> [ID |-> id, Price |-> 1200, Stock |-> 10]
          [] id = "prod-2" -> [ID |-> id, Price |-> 75,   Stock |-> 25]
          [] id = "prod-3" -> [ID |-> id, Price |-> 25,   Stock |-> 50] ]

\* Fault: a map lookup without the `ok` check returns the zero Product.
ProductGetByIDZeroValue(id) ==
    IF id \in DOMAIN products
       THEN [err |-> "none", product |-> products[id]]
       ELSE [err |-> "none", product |-> [ID |-> id, Price |-> 0, Stock |-> 0]]

\* MockProductRepository.GetByID: the stored product, or a not-found error.
ProductGetByID(id) ==
    IF id \in DOMAIN products
       THEN [err |-> "none", product |-> products[id]]
       ELSE [err |-> "not_found", product |-> [ID |-> id, Price |-> 0, Stock |-> 0]]

\* ---------------------------------------------------------- order service

RECURSIVE QuantityIn(_, _)
\* The quantity of product p that an item list asks for.
QuantityIn(items, p) ==
    IF items = <<>> THEN 0
    ELSE (IF Head(items).ProductID = p THEN Head(items).Quantity ELSE 0)
         + QuantityIn(Tail(items), p)

RECURSIVE QuantityOfOrders(_, _)
\* The quantity of product p in the stored orders with the given ids.
QuantityOfOrders(ids, p) ==
    IF ids = {} THEN 0
    ELSE LET id == CHOOSE x \in ids : TRUE
         IN  QuantityIn(orders[id].Items, p) + QuantityOfOrders(ids \ {id}, p)

\* The quantity of product p that the stored orders hold.
OrderedQuantity(p) == QuantityOfOrders(DOMAIN orders, p)

\* Fault: the check counts what the stored orders already took.
InsufficientStockAfterOrders(product, item) ==
    product.Stock - OrderedQuantity(item.ProductID) < item.Quantity

\* Fault: the stock check is left out.
StockCheckIgnored(product, item) == FALSE

\* CreateOrder: `if product.Stock < item.Quantity` rejects the item.
InsufficientStock(product, item) == product.Stock < item.Quantity

\* Fault: the quantity is left out of the line amount.
LineAmountNoQuantity(itemPrice, item) == itemPrice

\* CreateOrder: `totalAmount += itemPrice * float64(item.Quantity)`.
LineAmount(itemPrice, item) == itemPrice * item.Quantity

\* CreateOrder: the processed item carries the store's price at the read.
ProcessedItem(product, item) ==
    [ProductID |-> item.ProductID, Quantity |-> item.Quantity, Price |-> product.Price]

\* Fault: a Status or TotalAmount sent in the request is kept.
NewOrderKeepingSupplied(id, c) ==
    [ID |-> id, UserID |-> calls[c].userID, Items |-> calls[c].processedItems,
     TotalAmount |-> IF calls[c].supplied.TotalAmount # 0
                        THEN calls[c].supplied.TotalAmount ELSE calls[c].totalAmount,
     Status |-> IF calls[c].supplied.Status # ""
                   THEN calls[c].supplied.Status ELSE "pending",
     CreatedAt |-> now, UpdatedAt |-> now]

\* CreateOrder: the order object handed to the repository.
NewOrder(id, c) ==
    [ID |-> id, UserID |-> calls[c].userID, Items |-> calls[c].processedItems,
     TotalAmount |-> calls[c].totalAmount, Status |-> "pending",
     CreatedAt |-> now, UpdatedAt |-> now]

\* Fault: the event is built from the request, before the total is computed.
OrderCreatedMessageOfRequest(order) ==
    [orderID |-> order.ID, userID |-> order.UserID, status |-> order.Status, total |-> 0]

\* CreateOrder: the orderCreatedMessage map.
OrderCreatedMessage(order) ==
    [orderID |-> order.ID, userID |-> order.UserID,
     status |-> order.Status, total |-> order.TotalAmount]

\* The nil *models.Order of an error return.
NoOrder ==
    [ID |-> 0, UserID |-> "", Items |-> <<>>, TotalAmount |-> 0, Status |-> "",
     CreatedAt |-> 0, UpdatedAt |-> 0]

NoReturn == [done |-> FALSE, err |-> "none", order |-> NoOrder]

\* `return nil, fmt.Errorf(...)`.
ErrorReturn(e) == [done |-> TRUE, err |-> e, order |-> NoOrder]

\* The ID, Status and TotalAmount of a request body that sets none of them.
NoSupplied == [ID |-> 0, Status |-> "", TotalAmount |-> 0]

IdleCall ==
    [pc |-> "idle", userID |-> "", items |-> <<>>, supplied |-> NoSupplied, idx |-> 1,
     processedItems |-> <<>>, totalAmount |-> 0, newOrder |-> NoOrder,
     pub |-> "none", ret |-> NoReturn]

\* The zero amqp.Delivery.
NoDelivery == [tag |-> 0, msg |-> 0, redelivered |-> FALSE]

\* The behaviours a messageHandler can have: main.go's always returns nil.
HandlerModes == {"always_ok", "always_fail", "any"}

\* The builds: the revisions that compile together, wired by main.go
\* (in-memory repositories, a RabbitMQ client, no middleware) or by setupApp
\* (gorm product and user repositories, a nil client, AuthRequired).
Builds ==
    /\ svcRev \in {1, 2}
    /\ mqRev \in {1, 2}
    /\ ~(svcRev = 2 /\ mqRev = 2)      \* Client.Publish exists in revision 1 only
    /\ mqClientNil \in BOOLEAN
    /\ mqClientNil => svcRev = 2       \* setupApp's nil, where orders can be created
    /\ orderRepoImpl \in {"mock", "fallible"}
    /\ wiring = IF mqClientNil THEN "setupApp" ELSE "main"
    /\ productRepoImpl = IF wiring = "setupApp" THEN "gorm" ELSE "mock"
    /\ userModelRev \in {1, 2}
    /\ wiring = "main" => userModelRev = 2   \* main.go has no users and no gorm

\* No UpdateOrderStatus call made yet.
NoStatusCall ==
    [made |-> FALSE, id |-> 0, status |-> "", err |-> "none", repoCalled |-> FALSE,
     from |-> "", changed |-> FALSE]

\* No product repository write made yet.
NoProductCall ==
    [made |-> FALSE, op |-> "", id |-> "", stored |-> FALSE, err |-> "none",
     changed |-> FALSE]

\* No HTTP request answered yet.
NoRequest ==
    [made |-> FALSE, route |-> "", header |-> <<>>, status |-> 0, reached |-> FALSE]

\* No RegisterUser invocation in progress.
IdleReg == [pc |-> "idle", username |-> "", email |-> "", err |-> "none"]

\* main before rabbitmq.NewClient: no connection, no channel, no queue
\* declared, the consumer goroutine not started.
ClientAbsent ==
    /\ conn = "none"
    /\ channels = [ch \in {"client", "consume"} |-> "none"]
    /\ queues = <<>>
    /\ consumerPc = "none"
    /\ mainPc = "init"

\* main after a successful rabbitmq.NewClient: connection and c.channel are
\* open, "order_queue" is declared, the consumer goroutine is about to start.
ClientReady ==
    /\ conn = "open"
    /\ channels = [ch \in {"client", "consume"} |-> IF ch = "client" THEN "open" ELSE "none"]
    /\ queues = [q \in {"order_queue"} |-> <<>>]
    /\ consumerPc = "starting"
    /\ mainPc = "serving"

\* The repositories, services and logs after construction, with a
\* messageHandler out of `handlers`.
Stores(handlers) ==
    /\ products = SeedProducts
    /\ softDeleted = {}
    /\ statusCall = NoStatusCall
    /\ productCall = NoProductCall
    /\ catalog = SeedProducts
    /\ request = NoRequest
    /\ users = <<>>
    /\ regs = [c \in Callers |-> IdleReg]
    /\ now = 0
    /\ orders = <<>>
    /\ createdBy = <<>>
    /\ nextUUID = 0
    /\ calls = [c \in Callers |-> IdleCall]
    /\ published = <<>>
    /\ handlerMode \in handlers
    /\ unacked = <<>>
    /\ msgs = <<>>
    /\ loop = [pc |-> "none", cur |-> NoDelivery]
    /\ arrived = 0
    /\ deliveryLog = <<>>
    /\ handlerLog = <<>>
    /\ settleLog = <<>>
    /\ closeLog = <<>>

\* The state after construction.
Constructed(handlers) == Stores(handlers) /\ ClientReady

InitWith(handlers) == Builds /\ Constructed(handlers)

\* The process as main.go starts it (its messageHandler returns nil).
Init == InitWith({"always_ok"})

\* A caller invokes CreateOrder(orderRequest) with an item list out of
\* `lists`; the HTTP server takes requests until main shuts it down.
CallCreateOrderWith(c, lists) ==
    /\ calls[c].pc = "idle"
    /\ mainPc = "serving"
    /\ \E u \in UserIDs, items \in lists :
          calls' = [calls EXCEPT ![c] =
                       [IdleCall EXCEPT !.pc = "validate", !.userID = u, !.items = items]]
    /\ UNCHANGED <<build, apiVars, products, orders, createdBy, nextUUID, published, queues,
                       consumerVars>>

CallCreateOrder(c) == CallCreateOrderWith(c, ItemLists)

\* One iteration of `for _, item := range orderRequest.Items`.
ValidateItem(c) ==
    LET k == calls[c]
        item == k.items[k.idx]
        got == ProductGetByID(item.ProductID)
    IN  /\ k.pc = "validate"
        /\ k.idx <= Len(k.items)
        /\ calls' = [calls EXCEPT ![c] =
              IF got.err # "none"
                 THEN [k EXCEPT !.pc = "done",
                                !.ret = ErrorReturn("product_not_found")]
              ELSE IF InsufficientStock(got.product, item)
                 THEN [k EXCEPT !.pc = "done",
                                !.ret = ErrorReturn("insufficient_stock")]
              ELSE [k EXCEPT !.idx = @ + 1,
                             !.processedItems = Append(@, ProcessedItem(got.product, item)),
                             !.totalAmount = @ + LineAmount(got.product.Price, item)]]
        /\ UNCHANGED <<build, apiVars, products, orders, createdBy, nextUUID, published, queues,
                       consumerVars>>

\* orderRepo.Create's error result: MockOrderRepository.Create always returns
\* nil; the "fallible" repository stands for an OrderRepository whose Create
\* can return an error, the case CreateOrder's `if err != nil` branch handles.
RepoCreateErrors == IF orderRepoImpl = "mock" THEN {FALSE} ELSE {FALSE, TRUE}

\* Fault: Create starts a new map holding the new order alone.
OrderRepoCreateReplacing(order) == (order.ID :> order)

\* MockOrderRepository.GetByID: the stored order, or a not-found error.
OrderRepoGetByID(id) ==
    IF id \in DOMAIN orders
       THEN [err |-> "none", order |-> orders[id]]
       ELSE [err |-> "not_found", order |-> NoOrder]

\* MockOrderRepository.Create: `r.orders[order.ID] = *order`.
OrderRepoCreate(order) == (order.ID :> order) @@ orders

\* Fault: the error of orderRepo.Create is not checked.
AfterCreateIgnoringError(repoErr) == "publish"

\* CreateOrder: `if err != nil { return nil, ... }` after orderRepo.Create.
AfterCreate(repoErr) == IF repoErr THEN "done" ELSE "publish"

\* Fault: the ordered quantities are taken off the stock.
ProductsDecrementedBy(order) ==
    [id \in DOMAIN products |->
        [products[id] EXCEPT !.Stock = @ - QuantityIn(order.Items, id)]]

\* CreateOrder calls productRepo.GetByID only: the product store after the
\* order is saved is the one before.
ProductsAfterCreate(order) == products

\* CreateOrder after the loop: build newOrder and save it to the repository.
PersistOrder(c) ==
    LET k == calls[c]
        order == NewOrder(nextUUID + 1, c)
    IN  /\ k.pc = "validate"
        /\ k.idx > Len(k.items)
        /\ nextUUID' = nextUUID + 1
        /\ \E repoErr \in RepoCreateErrors :
              /\ orders' = IF repoErr THEN orders ELSE OrderRepoCreate(order)
              /\ createdBy' = IF repoErr THEN createdBy ELSE (order.ID :> c) @@ createdBy
              /\ calls' = [calls EXCEPT ![c] =
                    [k EXCEPT !.pc = AfterCreate(repoErr),
                              !.newOrder = order,
                              !.ret = IF AfterCreate(repoErr) = "done"
                                         THEN ErrorReturn("repository_create_failed")
                                         ELSE NoReturn]]
              /\ products' = IF repoErr THEN products ELSE ProductsAfterCreate(order)
        /\ UNCHANGED <<build, apiVars, published, queues, consumerVars>>

\* Client.Publish (revision 1): exchange and routing key as passed, no
\* delivery mode set. Client.PublishOrderCreated (revision 2): default
\* exchange, routing key "order_queue", amqp.Persistent.
PublishingOf(message) ==
    IF mqRev = 1
       THEN [exchange |-> "order", routingKey |-> "order.created",
             deliveryMode |-> "transient", body |-> message]
       ELSE [exchange |-> "", routingKey |-> "order_queue",
             deliveryMode |-> "persistent", body |-> message]

\* The broker's routing: the default exchange delivers to the queue named by
\* the routing key; no queue is ever bound to the exchange "order".
RouteTo(publishing) ==
    IF publishing.exchange = "" /\ publishing.routingKey \in DOMAIN queues
       THEN {publishing.routingKey}
       ELSE {}

\* The queues declared durable: "order_queue" (NewClient, and revision 2's
\* ConsumeOrderEvents); revision 1's ConsumeOrderEvents declares "orders"
\* with durable = false.
DurableQueues == {"order_queue"}

\* A message as the broker holds it in a queue.
QueueEntry(publishing) == [publishing |-> publishing, redelivered |-> FALSE]

\* CreateOrder: whether the publish call is made at all (revision 2 skips it
\* for a nil client; revision 1 always calls PublishOrderCreated).
PublishAttempted == ~(svcRev = 2 /\ mqClientNil)

\* The channel a publish runs on: revision 1 opens one with c.conn.Channel()
\* for the call and closes it on return; revision 2 uses the client's c.channel.
PublishChannel == IF mqRev = 1 THEN "publish" ELSE "client"

\* What the publish can result in: it fails when the connection (revision 1)
\* or the client's channel (revision 2) is closed, and can fail at the broker.
PublishResults ==
    IF (mqRev = 1 /\ conn = "open") \/ (mqRev = 2 /\ channels["client"] = "open")
       THEN {TRUE, FALSE} ELSE {FALSE}

\* A consumer registered by ConsumeOrderEvents is reading from its channel.
ConsumerRunning ==
    consumerPc = "streaming" /\ channels[IF mqRev = 1 THEN "consume" ELSE "client"] = "open"

\* Fault: a publish error is returned to the caller.
ReturnErrorOnPublishFailure(order, pubOk) ==
    IF pubOk THEN [done |-> TRUE, err |-> "none", order |-> order]
             ELSE ErrorReturn("publish_failed")

\* CreateOrder: a publish error is logged only; `return newOrder, nil`.
ReturnAfterPublish(order, pubOk) == [done |-> TRUE, err |-> "none", order |-> order]

\* Revision 1 of CreateOrder calls s.rabbitMQClient.PublishOrderCreated
\* without a nil check, and both revisions of the client read a field of the
\* receiver first (c.conn in Publish, c.channel in PublishOrderCreated).
NilDereference == svcRev = 1 /\ mqClientNil

\* CreateOrder step 3: publish the event, log a failure, return the order.
PublishEvent(c) ==
    LET k == calls[c]
        publishing == PublishingOf(OrderCreatedMessage(k.newOrder))
    IN  /\ k.pc = "publish"
        /\ ~NilDereference
        /\ \E brokerOk \in PublishResults :
              /\ IF PublishAttempted /\ brokerOk
                    THEN /\ published' = Append(published,
                               publishing @@ [by |-> c, channel |-> PublishChannel,
                                              consuming |-> ConsumerRunning])
                         /\ queues' = [q \in DOMAIN queues |->
                               IF q \in RouteTo(publishing)
                                  THEN Append(queues[q], QueueEntry(publishing)) ELSE queues[q]]
                    ELSE UNCHANGED <<published, queues>>
              /\ calls' = [calls EXCEPT ![c] =
                    [k EXCEPT !.pc = "done",
                              !.pub = IF ~PublishAttempted THEN "skipped"
                                      ELSE IF brokerOk THEN "ok" ELSE "failed",
                              !.ret = ReturnAfterPublish(k.newOrder,
                                                         ~PublishAttempted \/ brokerOk)]]
        /\ UNCHANGED <<build, apiVars, products, orders, createdBy, nextUUID, consumerVars>>

Next ==
    \/ \E c \in Callers : CallCreateOrder(c)
    \/ \E c \in Callers : ValidateItem(c)
    \/ \E c \in Callers : PersistOrder(c)
    \/ \E c \in Callers : PublishEvent(c)

Spec == Init /\ [][Next]_vars

\* ------------------------------------------------------------- consumer

\* Messages that reach the consumer's queue.
MaxMsgs == 2

\* Deliveries the broker pushes to the consumer (a requeued message is
\* delivered again without end; the count is capped here).
MaxDeliveries == 3

\* ch.Consume's auto-ack argument: true in revision 1, false in revision 2.
AutoAck == mqRev = 1

\* The queue ConsumeOrderEvents declares and consumes from.
ConsumerQueue == IF mqRev = 1 THEN "orders" ELSE "order_queue"

\* The channel ConsumeOrderEvents consumes on: revision 1 opens its own with
\* c.conn.Channel(), revision 2 uses the client's c.channel.
ConsumerChannel == IF mqRev = 1 THEN "consume" ELSE "client"

MsgOf(entry) == entry.publishing.body.orderID

\* The broker puts back, at the head of the queue and flagged redelivered,
\* the deliveries of a channel that were not acknowledged.
Requeue(queue, deliveries) ==
    [i \in 1..Len(deliveries) |->
        [publishing |-> deliveries[i].publishing, redelivered |-> TRUE]] \o queue

\* ConsumeOrderEvents up to the return of ch.Consume: open or take the
\* channel, declare the queue, register the consumer, start the loop.
ConsumeOrderEvents ==
    /\ consumerPc = "starting"
    /\ mainPc # "exited"
    /\ \E brokerOk \in BOOLEAN :
          IF /\ brokerOk
             /\ conn = "open"
             /\ (mqRev = 2 => channels["client"] = "open")
             THEN /\ consumerPc' = "streaming"
                  /\ channels' = [channels EXCEPT ![ConsumerChannel] = "open"]
                  /\ queues' = IF ConsumerQueue \in DOMAIN queues THEN queues
                                ELSE (ConsumerQueue :> <<>>) @@ queues
                  /\ loop' = [loop EXCEPT !.pc = "range"]
             ELSE /\ consumerPc' = "failed"
                  /\ UNCHANGED <<channels, queues, loop>>
    /\ UNCHANGED <<build, apiVars, products, orders, createdBy, nextUUID, calls, published,
                   handlerMode, closeLog, conn, unacked, msgs, mainPc, arrived, deliveryLog,
                   handlerLog, settleLog>>

\* A message reaches the consumer's queue (from this program's publisher
\* where the routing leads there, or from any other client of the broker).
Arrive ==
    /\ arrived < MaxMsgs
    /\ ConsumerQueue \in DOMAIN queues
    /\ arrived' = arrived + 1
    /\ queues' = [queues EXCEPT ![ConsumerQueue] =
          Append(@, QueueEntry([exchange |-> "", routingKey |-> ConsumerQueue,
                                deliveryMode |-> "persistent",
                                body |-> [orderID |-> arrived + 1, userID |-> "u1",
                                          status |-> "pending", total |-> 0]]))]
    /\ UNCHANGED <<build, apiVars, products, orders, createdBy, nextUUID, calls, published,
                   handlerMode, closeLog, conn, channels, consumerPc, unacked, msgs, loop, mainPc,
                   deliveryLog, handlerLog, settleLog>>

\* The broker pushes the head of the queue to the registered consumer (no
\* prefetch limit is set). With auto-ack the message is settled at once;
\* otherwise the broker keeps it as unacknowledged.
Deliver ==
    /\ consumerPc = "streaming"
    /\ channels[ConsumerChannel] = "open"
    /\ Len(deliveryLog) < MaxDeliveries
    /\ queues[ConsumerQueue] # <<>>
    /\ LET entry == Head(queues[ConsumerQueue])
           d == [tag |-> Len(deliveryLog) + 1, msg |-> MsgOf(entry),
                 redelivered |-> entry.redelivered]
       IN  /\ queues' = [queues EXCEPT ![ConsumerQueue] = Tail(@)]
           /\ msgs' = Append(msgs, d)
           /\ deliveryLog' = Append(deliveryLog, d)
           /\ IF AutoAck
                 THEN /\ settleLog' = Append(settleLog, [tag |-> d.tag, msg |-> d.msg,
                                                         kind |-> "auto", ok |-> TRUE])
                      /\ UNCHANGED unacked
                 ELSE /\ unacked' = Append(unacked, [tag |-> d.tag, publishing |-> entry.publishing])
                      /\ UNCHANGED settleLog
    /\ UNCHANGED <<build, apiVars, products, orders, createdBy, nextUUID, calls, published,
                   handlerMode, closeLog, conn, channels, consumerPc, loop, mainPc, arrived,
                   handlerLog>>

\* Fault: the handler is started in its own goroutine (`go messageHandler(msg)`).
LoopReadyWhileHandling == loop.pc \in {"range", "handler"}

\* `for msg := range msgs`: the loop takes the next delivery only when the
\* handler of the previous one has returned and its ack or nack was sent.
LoopReady == loop.pc = "range"

\* The loop receives the next delivery and calls messageHandler with it.
LoopReceive ==
    /\ LoopReady
    /\ mainPc # "exited"
    /\ msgs # <<>>
    /\ loop' = [pc |-> "handler", cur |-> Head(msgs)]
    /\ msgs' = Tail(msgs)
    /\ handlerLog' = Append(handlerLog, [tag |-> Head(msgs).tag, msg |-> Head(msgs).msg,
                                         state |-> "running"])
    /\ UNCHANGED <<build, apiVars, products, orders, createdBy, nextUUID, calls, published, queues,
                   handlerMode, closeLog, conn, channels, consumerPc, unacked, mainPc, arrived,
                   deliveryLog, settleLog>>

\* The errors messageHandler can return.
HandlerErrors ==
    CASE handlerMode = "always_ok"   -> {FALSE}
      [] handlerMode = "always_fail" -> {TRUE}
      [] OTHER                       -> {FALSE, TRUE}

\* unacked without the delivery tagged t.
WithoutTag(deliveries, t) == SelectSeq(deliveries, LAMBDA u : u.tag # t)

\* Fault: the loop returns on a handler error or a failed ack or nack.
LoopStopsOnFailure(err, sent) == IF err \/ ~(AutoAck \/ sent) THEN "exited" ELSE "range"

\* The goroutine after the handler returned: the error of the handler and
\* the error of msg.Ack or msg.Nack are logged, and the loop goes on.
LoopAfterHandler(err, sent) == "range"

\* messageHandler returns. Revision 1 logs an error and loops. Revision 2
\* sends msg.Nack(false, true) on an error and msg.Ack(false) otherwise; on
\* a closed channel either call fails and is only logged.
HandlerReturn ==
    /\ loop.pc = "handler"
    /\ mainPc # "exited"
    /\ \E err \in HandlerErrors :
          LET t == loop.cur.tag
              last == Len(handlerLog)
              sent == channels[ConsumerChannel] = "open"
              mine == SelectSeq(unacked, LAMBDA u : u.tag = t)
          IN  /\ handlerLog' = [handlerLog EXCEPT ![last].state =
                                    IF err THEN "failed" ELSE "ok"]
              /\ IF AutoAck
                    THEN UNCHANGED <<settleLog, unacked, queues>>
                    ELSE /\ settleLog' = Append(settleLog,
                                [tag |-> t, msg |-> loop.cur.msg,
                                 kind |-> IF err THEN "nack" ELSE "ack", ok |-> sent])
                         /\ unacked' = IF sent THEN WithoutTag(unacked, t) ELSE unacked
                         /\ queues' = IF sent /\ err
                                         THEN [queues EXCEPT ![ConsumerQueue] = Requeue(@, mine)]
                                         ELSE queues
              /\ loop' = [pc |-> LoopAfterHandler(err, sent), cur |-> NoDelivery]
    /\ UNCHANGED <<build, apiVars, products, orders, createdBy, nextUUID, calls, published,
                   handlerMode, closeLog, conn, channels, consumerPc, msgs, mainPc, arrived,
                   deliveryLog>>

\* The deliveries channel is closed with the AMQP channel: the range loop
\* ends, and deliveries still buffered are dropped.
LoopExit ==
    /\ loop.pc = "range"
    /\ mainPc # "exited"
    /\ channels[ConsumerChannel] = "closed"
    /\ loop' = [loop EXCEPT !.pc = "exited"]
    /\ msgs' = <<>>
    /\ UNCHANGED <<build, apiVars, products, orders, createdBy, nextUUID, calls, published, queues,
                   handlerMode, closeLog, conn, channels, consumerPc, unacked, mainPc, arrived,
                   deliveryLog, handlerLog, settleLog>>

\* Whether a Close call of the amqp library returns an error: either way the
\* library releases the channel or connection on this side.
CloseErrors == BOOLEAN

\* The channels of the client's connection that are open.
OpenChannels == {ch \in DOMAIN channels : channels[ch] = "open"}

\* One step of Client.Close as the history records it.
CloseStep(what, err) == [step |-> what, err |-> err, open |-> OpenChannels]

\* main receives SIGINT/SIGTERM, shuts the HTTP server down and runs the
\* deferred mqClient.Close(): first c.channel.Close(), whose error is
\* collected in errs and does not stop Close.
CloseChannel ==
    /\ mainPc = "serving"
    /\ \A c \in Callers : calls[c].pc \in {"idle", "done"}   \* app.Shutdown has returned
    /\ mainPc' = "closing"
    /\ channels' = [channels EXCEPT !["client"] = "closed"]
    /\ \E err \in CloseErrors : closeLog' = Append(closeLog, CloseStep("channel", err))
    /\ IF ConsumerChannel = "client" /\ consumerPc = "streaming"
          THEN /\ queues' = [queues EXCEPT ![ConsumerQueue] = Requeue(@, unacked)]
               /\ unacked' = <<>>
          ELSE UNCHANGED <<queues, unacked>>
    /\ UNCHANGED <<build, apiVars, products, orders, createdBy, nextUUID, calls, published,
                   handlerMode, conn, consumerPc, msgs, loop, arrived, deliveryLog,
                   handlerLog, settleLog>>

\* Client.Close: then c.conn.Close(), which closes every channel of the
\* connection.
CloseConn ==
    /\ mainPc = "closing"
    /\ mainPc' = "closed"
    /\ conn' = "closed"
    /\ \E err \in CloseErrors : closeLog' = Append(closeLog, CloseStep("conn", err))
    /\ channels' = [ch \in DOMAIN channels |->
                       IF channels[ch] = "open" THEN "closed" ELSE channels[ch]]
    /\ IF consumerPc = "streaming"
          THEN /\ queues' = [queues EXCEPT ![ConsumerQueue] = Requeue(@, unacked)]
               /\ unacked' = <<>>
          ELSE UNCHANGED <<queues, unacked>>
    /\ UNCHANGED <<build, apiVars, products, orders, createdBy, nextUUID, calls, published,
                   handlerMode, consumerPc, msgs, loop, arrived, deliveryLog,
                   handlerLog, settleLog>>

\* main returns: the process ends and its goroutines with it.
Exit ==
    /\ mainPc = "closed"
    /\ mainPc' = "exited"
    /\ UNCHANGED <<build, apiVars, products, orders, createdBy, nextUUID, calls, published, queues,
                   handlerMode, closeLog, conn, channels, consumerPc, unacked, msgs, loop, arrived,
                   deliveryLog, handlerLog, settleLog>>

\* The process as main.go wires it, with any messageHandler.
ConsumerInit == InitWith(HandlerModes) /\ ~mqClientNil /\ orderRepoImpl = "mock"

ConsumerNext ==
    \/ ConsumeOrderEvents
    \/ Arrive
    \/ Deliver
    \/ LoopReceive
    \/ HandlerReturn
    \/ LoopExit
    \/ CloseChannel
    \/ CloseConn
    \/ Exit

ConsumerSpec == ConsumerInit /\ [][ConsumerNext]_vars

\* The caller whose CreateOrder request runs beside the status updates.
StoreCallers == {"c1"}

\* Item lists of requests that pass validation against the seeded products.
ValidItemLists ==
    { <<[ProductID |-> "prod-1", Quantity |-> 1]>>,
      <<[ProductID |-> "prod-2", Quantity |-> 2]>> }

\* ---------------------------------------------------------- order status

\* UpdateOrderStatus: the keys of validStatuses.
ValidStatuses == {"pending", "processing", "shipped", "delivered", "cancelled"}

\* Fault: the status is not validated.
StatusNotValidated(status) == TRUE

\* UpdateOrderStatus: `if _, ok := validStatuses[status]; !ok`.
IsValidStatus(status) == status \in ValidStatuses

\* Fault: UpdateStatus stores a fresh Order carrying only the ID and status.
OrderRepoUpdateStatusReplacing(id, status) ==
    IF id \notin DOMAIN orders
       THEN [err |-> "not_found", store |-> orders]
       ELSE [err |-> "none",
             store |-> [orders EXCEPT ![id] = [NoOrder EXCEPT !.ID = id, !.Status = status]]]

\* Fault: UpdateStatus stamps the creation time as well.
OrderRepoUpdateStatusRestamping(id, status) ==
    IF id \notin DOMAIN orders
       THEN [err |-> "not_found", store |-> orders]
       ELSE [err |-> "none",
             store |-> [orders EXCEPT ![id].Status = status, ![id].UpdatedAt = now,
                                      ![id].CreatedAt = now]]

\* MockOrderRepository.UpdateStatus: a not-found error for an unknown id;
\* otherwise the stored order's Status is overwritten, whatever it was, and
\* its UpdatedAt is set to time.Now().
OrderRepoUpdateStatus(id, status) ==
    IF id \notin DOMAIN orders
       THEN [err |-> "not_found", store |-> orders]
       ELSE [err |-> "none",
             store |-> [orders EXCEPT ![id].Status = status, ![id].UpdatedAt = now]]

\* What a call of the order service's read and status-update paths leaves
\* alone: everything but the order store and the call records.
orderCallFrame ==
    <<build, products, createdBy, nextUUID, calls, published, queues, consumerVars,
      softDeleted, productCall, catalog, users, regs, now>>

\* OrderService.UpdateOrderStatus(id, status): validate the status, then
\* orderRepo.UpdateStatus; no event is published.
UpdateOrderStatusCall(id, status) ==
    LET valid == IsValidStatus(status)
        res == IF valid THEN OrderRepoUpdateStatus(id, status)
                        ELSE [err |-> "invalid_status", store |-> orders]
    IN  /\ mainPc = "serving"
        /\ orders' = res.store
        /\ statusCall' = [made |-> TRUE, id |-> id, status |-> status, err |-> res.err,
                          repoCalled |-> valid,
                          from |-> IF id \in DOMAIN orders THEN orders[id].Status ELSE "",
                          changed |-> res.store # orders]
        /\ UNCHANGED orderCallFrame

\* A caller of the service invokes UpdateOrderStatus.
UpdateOrderStatus(id, status) == UpdateOrderStatusCall(id, status) /\ UNCHANGED request

\* The statuses a caller passes: the valid ones, the empty string and a
\* word that is not a status.
StatusInputs == ValidStatuses \cup {"", "refunded"}

\* The ids a caller passes: those of the stored orders and one never issued.
OrderIDInputs == DOMAIN orders \cup {nextUUID + 1}

\* ------------------------------------------------------------ HTTP layer

\* A token as AuthService.LoginUser issues it: HS256, signed with the
\* service's secret, not yet expired.
IssuedToken == [parses |-> TRUE, alg |-> "HS256", key |-> "jwtSecret", expired |-> FALSE]

\* The token strings a client sends: an issued one, an expired one, one
\* signed with another key, one of another algorithm, and one that is no JWT.
TokenInputs ==
    { IssuedToken,
      [IssuedToken EXCEPT !.expired = TRUE],
      [IssuedToken EXCEPT !.key = "other"],
      [IssuedToken EXCEPT !.alg = "none"],
      [parses |-> FALSE, alg |-> "", key |-> "", expired |-> FALSE] }

\* The Authorization header split at the first space (strings.SplitN): no
\* header, a scheme alone, another scheme with a token, "Bearer" with a token.
AuthHeaderInputs ==
    { <<>>, <<"Bearer">>, <<"Token", IssuedToken>> }
        \cup { <<"Bearer", t>> : t \in TokenInputs }

\* AuthService.ValidateToken: jwt.Parse fails on a malformed token, on a
\* signing method that is not HMAC, on a wrong signature and on an expired
\* token; otherwise the claims are returned.
ValidateToken(t) ==
    IF /\ t.parses
       /\ t.alg = "HS256"
       /\ t.key = "jwtSecret"
       /\ ~t.expired
       THEN "none" ELSE "invalid_token"

\* middleware.AuthRequired: 401 for a missing header, for one that is not
\* "Bearer <token>" and for a token ValidateToken rejects; else c.Next().
AuthRequired(header) ==
    IF header = <<>> THEN 401
    ELSE IF ~(Len(header) = 2 /\ header[1] = "Bearer") THEN 401
    ELSE IF ValidateToken(header[2]) # "none" THEN 401
    ELSE 0

\* What runs before the handlers of the product and order routes: setupApp
\* registers them on a group with AuthRequired, main.go on apiV1 directly.
Middleware(header) == IF wiring = "setupApp" THEN AuthRequired(header) ELSE 0

\* The response to the request and whether the order service was called.
Answer(route, header, status, reached) ==
    request' = [made |-> TRUE, route |-> route, header |-> header,
                status |-> status, reached |-> reached]

\* GET /api/v1/orders/:id: HandleGetOrderByID, OrderService.GetOrderByID.
HttpGetOrderByID(header, id) ==
    /\ mainPc = "serving"
    /\ IF Middleware(header) # 0
          THEN Answer("GET /orders/:id", header, Middleware(header), FALSE)
          ELSE Answer("GET /orders/:id", header,
                      IF id \in DOMAIN orders THEN 200 ELSE 404, TRUE)
    /\ UNCHANGED <<orders, statusCall, orderCallFrame>>

\* HandleUpdateOrderStatus maps the service's error: the invalid-status
\* text is matched (404), the wrapped not-found text is not (500).
StatusUpdateResponse(err) ==
    CASE err = "none"           -> 200
      [] err = "invalid_status" -> 404
      [] OTHER                  -> 500

\* PATCH /api/v1/orders/:id/status: HandleUpdateOrderStatus answers 400 to
\* an empty status and calls OrderService.UpdateOrderStatus otherwise.
HttpUpdateOrderStatus(header, id, status) ==
    /\ mainPc = "serving"
    /\ IF Middleware(header) # 0
          THEN /\ Answer("PATCH /orders/:id/status", header, Middleware(header), FALSE)
               /\ UNCHANGED <<orders, statusCall, orderCallFrame>>
       ELSE IF status = ""
          THEN /\ Answer("PATCH /orders/:id/status", header, 400, FALSE)
               /\ UNCHANGED <<orders, statusCall, orderCallFrame>>
       ELSE /\ UpdateOrderStatusCall(id, status)
            /\ Answer("PATCH /orders/:id/status", header,
                       StatusUpdateResponse(statusCall'.err), TRUE)

\* The statuses a request body carries.
HttpStatusInputs == {"shipped", "refunded", ""}

\* A CreateOrder call and HTTP requests to the order routes, with every
\* kind of Authorization header, in the main.go and the setupApp wiring.
HttpInit == Init /\ orderRepoImpl = "mock"

HttpNext ==
    \/ \E c \in StoreCallers : CallCreateOrderWith(c, ValidItemLists)
    \/ \E c \in StoreCallers : ValidateItem(c)
    \/ \E c \in StoreCallers : PersistOrder(c)
    \/ \E c \in StoreCallers : PublishEvent(c)
    \/ \E h \in AuthHeaderInputs, id \in OrderIDInputs : HttpGetOrderByID(h, id)
    \/ \E h \in AuthHeaderInputs, id \in OrderIDInputs, status \in HttpStatusInputs :
          HttpUpdateOrderStatus(h, id, status)

HttpSpec == HttpInit /\ [][HttpNext]_vars

\* ----------------------------------------------------------------- users

UsernameInputs == {"alice", "bob"}

EmailInputs == {"a@example.com", "b@example.com"}

\* What a call of RegisterUser leaves alone: everything but users and regs.
userCallFrame ==
    <<build, products, orders, createdBy, nextUUID, calls, published, queues,
      consumerVars, softDeleted, statusCall, productCall, catalog, request, now>>

\* A read of the users table succeeds or fails with a database error.
ReadResults == {"ok", "db_error"}

\* HandleRegister calls AuthService.RegisterUser(user).
CallRegisterUser(c) ==
    /\ regs[c].pc = "idle"
    /\ \E u \in UsernameInputs, e \in EmailInputs :
          regs' = [regs EXCEPT ![c] =
                      [IdleReg EXCEPT !.pc = "check_username", !.username = u, !.email = e]]
    /\ UNCHANGED <<users, userCallFrame>>

\* RegisterUser: `existingUser, err := GetByUsername(...)`; the call fails
\* only when a row was found and no error came back: a not-found result
\* and a failed read both let the registration go on.
RegisterCheckUsername(c) ==
    LET k == regs[c]
        found == \E i \in 1..Len(users) : users[i].Username = k.username
    IN  /\ k.pc = "check_username"
        /\ \E read \in ReadResults :
              regs' = [regs EXCEPT ![c] =
                 IF read = "ok" /\ found
                    THEN [k EXCEPT !.pc = "done", !.err = "username_taken"]
                    ELSE [k EXCEPT !.pc = "check_email"]]
        /\ UNCHANGED <<users, userCallFrame>>

\* RegisterUser: the same check with GetByEmail.
RegisterCheckEmail(c) ==
    LET k == regs[c]
        found == \E i \in 1..Len(users) : users[i].Email = k.email
    IN  /\ k.pc = "check_email"
        /\ \E read \in ReadResults :
              regs' = [regs EXCEPT ![c] =
                 IF read = "ok" /\ found
                    THEN [k EXCEPT !.pc = "done", !.err = "email_registered"]
                    ELSE [k EXCEPT !.pc = "create"]]
        /\ UNCHANGED <<users, userCallFrame>>

\* The insert of GORMUserRepository.Create: with revision 1 of models.User
\* the table has unique indexes on username and email and the database
\* refuses a row that repeats either; revision 2 declares no index.
InsertRefused(username, email) ==
    /\ userModelRev = 1
    /\ \E i \in 1..Len(users) : users[i].Username = username \/ users[i].Email = email

\* RegisterUser: hash the password and userRepo.Create(user); an error of
\* the insert is returned as "failed to register user".
RegisterCreate(c) ==
    LET k == regs[c]
    IN  /\ k.pc = "create"
        /\ IF InsertRefused(k.username, k.email)
              THEN /\ regs' = [regs EXCEPT ![c] =
                                  [k EXCEPT !.pc = "done", !.err = "create_failed"]]
                   /\ UNCHANGED users
              ELSE /\ regs' = [regs EXCEPT ![c] = [k EXCEPT !.pc = "done"]]
                   /\ users' = Append(users, [Username |-> k.username, Email |-> k.email,
                                              by |-> c])
        /\ UNCHANGED userCallFrame

\* Concurrent registrations through the setupApp wiring (gorm user
\* repository), with either revision of models.User.
UserInit == Init /\ wiring = "setupApp" /\ orderRepoImpl = "mock"

UserNext ==
    \/ \E c \in Callers : CallRegisterUser(c)
    \/ \E c \in Callers : RegisterCheckUsername(c)
    \/ \E c \in Callers : RegisterCheckEmail(c)
    \/ \E c \in Callers : RegisterCreate(c)

UserSpec == UserInit /\ [][UserNext]_vars

\* -------------------------------------------------------- product writes

\* The ids uuid.New() can give to a product created without one.
FreshProductIDs == {"new-1"}

\* The ids a caller passes: one that is seeded and one that is not stored.
ProductIDInputs == {"prod-1", "prod-9"}

\* The products a caller passes to Create (the ID may be empty) and Update.
ProductInputs ==
    { [ID |-> i, Price |-> 999, Stock |-> 3] : i \in ProductIDInputs \cup {""} }

\* The map f without the key k.
Without(f, k) == [x \in DOMAIN f \ {k} |-> f[x]]

\* Create: `if product.ID == "" { product.ID = uuid.New().String() }`.
CreatedID(p) ==
    IF p.ID = ""
       THEN CHOOSE i \in FreshProductIDs : i \notin DOMAIN products \cup softDeleted
       ELSE p.ID

\* MockProductRepository.Create stores the product under its ID, replacing
\* what was there. GORMProductRepository.Create inserts a row: the insert
\* fails on a primary key that a row, soft-deleted or not, already has.
ProductRepoCreate(p) ==
    LET id == CreatedID(p)
        row == [p EXCEPT !.ID = id]
    IN  IF productRepoImpl = "gorm" /\ id \in DOMAIN products \cup softDeleted
           THEN [err |-> "create_failed", rows |-> products, deleted |-> softDeleted]
           ELSE [err |-> "none", rows |-> (id :> row) @@ products, deleted |-> softDeleted]

\* MockProductRepository.Update replaces a stored product and returns a
\* not-found error for an unknown ID. GORMProductRepository.Update calls
\* db.Save: gorm updates the row with that primary key and, when the update
\* matched no row, inserts the value (INSERT ... ON CONFLICT DO UPDATE), so
\* RowsAffected is 1 either way and a soft-deleted row is brought back.
ProductRepoUpdate(p) ==
    IF p.ID \in DOMAIN products
       THEN [err |-> "none", rows |-> [products EXCEPT ![p.ID] = p], deleted |-> softDeleted]
    ELSE IF productRepoImpl = "gorm"
       THEN [err |-> "none", rows |-> (p.ID :> p) @@ products,
             deleted |-> softDeleted \ {p.ID}]
    ELSE [err |-> "not_found", rows |-> products, deleted |-> softDeleted]

\* MockProductRepository.Delete removes the entry; GORMProductRepository.Delete
\* sets deleted_at on the row (gorm.Model), which hides it from every read.
\* Both return a not-found error when no visible row has the ID.
ProductRepoDelete(id) ==
    IF id \notin DOMAIN products
       THEN [err |-> "not_found", rows |-> products, deleted |-> softDeleted]
       ELSE [err |-> "none", rows |-> Without(products, id),
             deleted |-> IF productRepoImpl = "gorm" THEN softDeleted \cup {id}
                                                     ELSE softDeleted]

\* The write `res` of kind `op` on `id` takes effect and is recorded;
\* `described` is the map the sequence of writes describes after it.
ProductWrite(op, id, res, described) ==
    /\ mainPc = "serving"
    /\ products' = res.rows
    /\ softDeleted' = res.deleted
    /\ catalog' = described
    /\ productCall' = [made |-> TRUE, op |-> op, id |-> id, stored |-> id \in DOMAIN products,
                       err |-> res.err,
                       changed |-> res.rows # products \/ res.deleted # softDeleted]
    /\ UNCHANGED <<build, orders, createdBy, nextUUID, calls, published, queues,
                   consumerVars, statusCall, request, users, regs, now>>

\* ProductService.CreateProduct(p): the repository's Create.
CreateProduct(p) ==
    /\ p.ID = "" => \E i \in FreshProductIDs : i \notin DOMAIN products \cup softDeleted
    /\ LET res == ProductRepoCreate(p)
           id == CreatedID(p)
       IN  ProductWrite("create", id, res,
                        IF res.err = "none" THEN (id :> [p EXCEPT !.ID = id]) @@ catalog
                                            ELSE catalog)

\* ProductService.UpdateProduct(p): the repository's Update.
UpdateProduct(p) ==
    ProductWrite("update", p.ID, ProductRepoUpdate(p),
                 IF p.ID \in DOMAIN catalog THEN [catalog EXCEPT ![p.ID] = p] ELSE catalog)

\* ProductService.DeleteProduct(id): the repository's Delete.
DeleteProduct(id) ==
    ProductWrite("delete", id, ProductRepoDelete(id), Without(catalog, id))

\* The product catalogue under any sequence of writes, with the in-memory
\* repository (main.go) and with the gorm one (setupApp).
CatalogInit == Init /\ orderRepoImpl = "mock"

CatalogNext ==
    \/ \E p \in ProductInputs : CreateProduct(p)
    \/ \E p \in ProductInputs : p.ID # "" /\ UpdateProduct(p)
    \/ \E id \in ProductIDInputs : DeleteProduct(id)

CatalogSpec == CatalogInit /\ [][CatalogNext]_vars

\* An order is created, order statuses are updated, and the product the
\* order refers to is repriced and deleted, in any order.
StoreInit == Init /\ orderRepoImpl = "mock"

StoreNext ==
    \/ \E c \in StoreCallers : CallCreateOrderWith(c, ValidItemLists)
    \/ \E c \in StoreCallers : ValidateItem(c)
    \/ \E c \in StoreCallers : PersistOrder(c)
    \/ \E c \in StoreCallers : PublishEvent(c)
    \/ \E id \in OrderIDInputs, status \in StatusInputs : UpdateOrderStatus(id, status)
    \/ \E p \in ProductInputs : p.ID \in DOMAIN SeedProducts /\ UpdateProduct(p)
    \/ \E id \in ProductIDInputs : id \in DOMAIN SeedProducts /\ DeleteProduct(id)

StoreSpec == StoreInit /\ [][StoreNext]_vars

\* ------------------------------------------------------------- overselling

\* Requests for prod-1 (stock 10): each within the stock, any two beyond it.
OversellItemLists ==
    { <<[ProductID |-> "prod-1", Quantity |-> 6]>>,
      <<[ProductID |-> "prod-1", Quantity |-> 10]>>,
      <<[ProductID |-> "prod-2", Quantity |-> 2], [ProductID |-> "prod-1", Quantity |-> 6]>> }

\* Two CreateOrder calls for the same product, concurrent or one after the
\* other.
OversellInit == Init /\ orderRepoImpl = "mock"

OversellNext ==
    \/ \E c \in Callers : CallCreateOrderWith(c, OversellItemLists)
    \/ \E c \in Callers : ValidateItem(c)
    \/ \E c \in Callers : PersistOrder(c)
    \/ \E c \in Callers : PublishEvent(c)

OversellSpec == OversellInit /\ [][OversellNext]_vars

\* ------------------------------------------------- POST /api/v1/orders

\* The ID, Status and TotalAmount a request body carries: none, or forged.
SuppliedChoices == {NoSupplied, [ID |-> 99, Status |-> "delivered", TotalAmount |-> 1]}

\* The items of a request body, with the Price the client put in; the
\* quantity is whatever integer the client sent.
RequestItemChoices ==
    { [ProductID |-> "prod-1", Quantity |-> 1,  Price |-> 0],
      [ProductID |-> "prod-1", Quantity |-> 1,  Price |-> 1],
      [ProductID |-> "prod-2", Quantity |-> 0,  Price |-> 0],
      [ProductID |-> "prod-1", Quantity |-> -1, Price |-> 0] }

\* The request bodies BodyParser binds to a models.Order: a user with one
\* item, with no item, and no user.
RequestInputs ==
    { [UserID |-> "u1", Items |-> <<item>>, supplied |-> sup] :
          item \in RequestItemChoices, sup \in SuppliedChoices }
      \cup { [UserID |-> "u1", Items |-> <<>>, supplied |-> NoSupplied],
             [UserID |-> "", Items |-> <<[ProductID |-> "prod-1", Quantity |-> 1, Price |-> 0]>>,
              supplied |-> NoSupplied] }

\* HandleCreateOrder: 400 when UserID is empty or there is no item; else
\* OrderService.CreateOrder(orderRequest) is called with the bound body.
HandleCreateOrder(c) ==
    /\ calls[c].pc = "idle"
    /\ mainPc = "serving"
    /\ \E r \in RequestInputs :
          LET bound == [IdleCall EXCEPT !.userID = r.UserID, !.items = r.Items,
                                        !.supplied = r.supplied]
          IN  calls' = [calls EXCEPT ![c] =
                 IF r.UserID = "" \/ Len(r.Items) = 0
                    THEN [bound EXCEPT !.pc = "done", !.ret = ErrorReturn("bad_request")]
                    ELSE [bound EXCEPT !.pc = "validate"]]
    /\ UNCHANGED <<build, apiVars, products, orders, createdBy, nextUUID, published, queues,
                   consumerVars>>

\* Two requests to POST /api/v1/orders, concurrent or one after the other.
RequestInit == Init /\ orderRepoImpl = "mock"

RequestNext ==
    \/ \E c \in Callers : HandleCreateOrder(c)
    \/ \E c \in Callers : ValidateItem(c)
    \/ \E c \in Callers : PersistOrder(c)
    \/ \E c \in Callers : PublishEvent(c)

RequestSpec == RequestInit /\ [][RequestNext]_vars

\* ------------------------------------------------------- frame conditions

\* Ticks of the clock within a run.
MaxClock == 1

\* Time passes between two calls.
Tick ==
    /\ now < MaxClock
    /\ now' = now + 1
    /\ UNCHANGED <<build, products, orders, createdBy, nextUUID, calls, published, queues,
                   consumerVars, softDeleted, statusCall, productCall, catalog, request,
                   users, regs>>

\* Item lists of one request: two that pass validation, one for a product
\* that is not stored, one above the stock of prod-1.
FrameItemLists ==
    ValidItemLists \cup { <<[ProductID |-> "prod-x", Quantity |-> 1]>>,
                          <<[ProductID |-> "prod-1", Quantity |-> 11]>> }

\* A CreateOrder call, successful or failed, beside status updates and
\* product rewrites.
FrameInit == Init /\ orderRepoImpl = "mock"

FrameNext ==
    \/ \E c \in StoreCallers : CallCreateOrderWith(c, FrameItemLists)
    \/ \E c \in StoreCallers : ValidateItem(c)
    \/ \E c \in StoreCallers : PersistOrder(c)
    \/ \E c \in StoreCallers : PublishEvent(c)
    \/ \E id \in OrderIDInputs, status \in StatusInputs : UpdateOrderStatus(id, status)
    \/ \E p \in ProductInputs : p.ID \in DOMAIN SeedProducts /\ UpdateProduct(p)

FrameSpec == FrameInit /\ [][FrameNext]_vars

\* The statuses passed beside two orders: a valid one and a word that is none.
StatusChoices == {"shipped", "refunded"}

\* Two CreateOrder calls and status updates of their orders, as time passes.
StatusInit == Init /\ orderRepoImpl = "mock"

StatusNext ==
    \/ \E c \in Callers : CallCreateOrderWith(c, ValidItemLists)
    \/ \E c \in Callers : ValidateItem(c)
    \/ \E c \in Callers : PersistOrder(c)
    \/ \E c \in Callers : PublishEvent(c)
    \/ \E id \in OrderIDInputs, status \in StatusChoices : UpdateOrderStatus(id, status)
    \/ Tick

StatusSpec == StatusInit /\ [][StatusNext]_vars

\* ------------------------------------------------------- no broker client

\* NewOrderService(orderRepo, productRepo, nil) with either revision of the
\* service, wired as setupApp does.
NilClientBuilds ==
    /\ svcRev \in {1, 2}
    /\ mqRev \in {1, 2}
    /\ ~(svcRev = 2 /\ mqRev = 2)
    /\ mqClientNil = TRUE
    /\ orderRepoImpl = "mock"
    /\ wiring = "setupApp"
    /\ productRepoImpl = "gorm"
    /\ userModelRev \in {1, 2}

\* No rabbitmq.Client was built: no connection, no channel, no consumer.
NoClient ==
    /\ conn = "none"
    /\ channels = [ch \in {"client", "consume"} |-> "none"]
    /\ queues = <<>>
    /\ consumerPc = "none"
    /\ mainPc = "serving"

\* The nil pointer dereference in the publish step: the goroutine panics,
\* nothing recovers it, and the process ends with its requests in flight.
PublishOnNilClient(c) ==
    /\ calls[c].pc = "publish"
    /\ NilDereference
    /\ calls' = [k \in Callers |->
                    IF k = c THEN [calls[k] EXCEPT !.pc = "panicked", !.pub = "panicked"]
                    ELSE IF calls[k].pc \in {"idle", "done"} THEN calls[k]
                    ELSE [calls[k] EXCEPT !.pc = "killed"]]
    /\ mainPc' = "crashed"
    /\ UNCHANGED <<build, apiVars, products, orders, createdBy, nextUUID, published, queues,
                   handlerMode, closeLog, conn, channels, consumerPc, unacked, msgs, loop,
                   arrived, deliveryLog, handlerLog, settleLog>>

NilClientInit == NilClientBuilds /\ Stores({"always_ok"}) /\ NoClient

NilClientNext ==
    \/ \E c \in Callers : CallCreateOrderWith(c, FrameItemLists)
    \/ \E c \in Callers : ValidateItem(c)
    \/ \E c \in Callers : PersistOrder(c)
    \/ \E c \in Callers : PublishEvent(c)
    \/ \E c \in Callers : PublishOnNilClient(c)

NilClientSpec == NilClientInit /\ [][NilClientNext]_vars

\* ------------------------------------------------------------- NewClient

\* How far NewClient gets: amqp.Dial fails, conn.Channel fails,
\* ch.QueueDeclare fails, or all three succeed.
NewClientResults == {"ok", "dial_failed", "channel_failed", "declare_failed"}

\* Fault: the connection is not closed on the error paths.
ConnLeftOpenOnError(result) == IF result = "dial_failed" THEN "none" ELSE "open"

\* NewClient: the connection is closed when the channel cannot be opened and
\* when the queue cannot be declared.
ConnAfterNewClient(result) ==
    CASE result = "ok"          -> "open"
      [] result = "dial_failed" -> "none"
      [] OTHER                  -> "closed"

\* NewClient: the channel is closed when the queue cannot be declared.
ChannelAfterNewClient(result) ==
    CASE result = "ok"             -> "open"
      [] result = "declare_failed" -> "closed"
      [] OTHER                     -> "none"

\* main calls rabbitmq.NewClient; on an error it ends with log.Fatalf,
\* otherwise it builds the services and starts the consumer goroutine.
NewClient ==
    /\ mainPc = "init"
    /\ \E result \in NewClientResults :
          /\ conn' = ConnAfterNewClient(result)
          /\ channels' = [channels EXCEPT !["client"] = ChannelAfterNewClient(result)]
          /\ queues' = IF result = "ok" THEN ("order_queue" :> <<>>) @@ queues ELSE queues
          /\ mainPc' = IF result = "ok" THEN "serving" ELSE "fatal"
          /\ consumerPc' = IF result = "ok" THEN "starting" ELSE "none"
    /\ UNCHANGED <<build, apiVars, products, orders, createdBy, nextUUID, calls, published,
                   handlerMode, closeLog, unacked, msgs, loop, arrived, deliveryLog, handlerLog,
                   settleLog>>

\* The process from the start of main, with any messageHandler.
StartupInit ==
    Builds /\ ~mqClientNil /\ orderRepoImpl = "mock" /\ Stores(HandlerModes) /\ ClientAbsent

StartupNext == NewClient \/ ConsumerNext

StartupSpec == StartupInit /\ [][StartupNext]_vars

\* ------------------------------------------- HTTP requests and the consumer

\* main.go: the HTTP server and the consumer goroutine run side by side on
\* one rabbitmq.Client; the queue is fed by the program's own publisher.
SystemInit == Init /\ ~mqClientNil /\ orderRepoImpl = "mock"

SystemNext ==
    \/ \E c \in Callers : CallCreateOrderWith(c, ValidItemLists)
    \/ \E c \in Callers : ValidateItem(c)
    \/ \E c \in Callers : PersistOrder(c)
    \/ \E c \in Callers : PublishEvent(c)
    \/ ConsumeOrderEvents
    \/ Deliver
    \/ LoopReceive
    \/ HandlerReturn
    \/ LoopExit
    \/ CloseChannel
    \/ CloseConn
    \/ Exit

SystemSpec == SystemInit /\ [][SystemNext]_vars

\* ------------------------------------------------------------ properties

Finished(c) == calls[c].pc = "done"

NoOrderStoredBy(c) == \A id \in DOMAIN orders : createdBy[id] # c

NoEventBy(c) == \A i \in 1..Len(published) : published[i].by # c

MissingProduct(item) == item.ProductID \notin DOMAIN products

OverStock(item) ==
    /\ item.ProductID \in DOMAIN products
    /\ item.Quantity > products[item.ProductID].Stock

Offending(item) == MissingProduct(item) \/ OverStock(item)

\* The first item, in list order, that is missing or above stock.
FirstOffending(items) ==
    CHOOSE i \in 1..Len(items) :
        Offending(items[i]) /\ \A j \in 1..(i - 1) : ~Offending(items[j])

RECURSIVE RequestTotal(_)
\* Sum over the items of (stored product price x quantity).
RequestTotal(items) ==
    IF items = <<>> THEN 0
    ELSE products[Head(items).ProductID].Price * Head(items).Quantity
         + RequestTotal(Tail(items))

\* C1: every published event carries the ID of an order that is in the
\* store, stored by the same call; a call whose orderRepo.Create failed has
\* returned an error and published nothing.
C1_WriteThenPublish ==
    /\ \A i \in 1..Len(published) :
          /\ published[i].body.orderID \in DOMAIN orders
          /\ createdBy[published[i].body.orderID] = published[i].by
    /\ \A c \in Callers :
          (calls[c].newOrder # NoOrder /\ calls[c].newOrder.ID \notin DOMAIN orders)
             => /\ Finished(c)
                /\ calls[c].ret = ErrorReturn("repository_create_failed")
                /\ NoEventBy(c)

C1_Witness ==
    /\ Len(published) > 0
    /\ \E c \in Callers : calls[c].ret = ErrorReturn("repository_create_failed")

\* C2: a call whose publish step failed has returned the created order with
\* a nil error, and that order is in the store under its ID, as returned.
C2_PublishFailureKeepsOrder ==
    \A c \in Callers :
        calls[c].pub = "failed"
           => /\ calls[c].ret = [done |-> TRUE, err |-> "none", order |-> calls[c].newOrder]
              /\ calls[c].newOrder.ID \in DOMAIN orders
              /\ orders[calls[c].newOrder.ID] = calls[c].ret.order

C2_Witness ==
    \E c \in Callers : calls[c].pub = "failed" /\ calls[c].ret.order.ID \in DOMAIN orders

\* C3: with the in-memory order repository, a finished call whose items all
\* reference stored products within stock returned an order whose total is
\* the sum of price x quantity, and the store holds that order under its ID.
C3_TotalAndRetrievable ==
    \A c \in Callers :
        (/\ Finished(c)
         /\ orderRepoImpl = "mock"
         /\ \A i \in 1..Len(calls[c].items) : ~Offending(calls[c].items[i]))
           => /\ calls[c].ret.err = "none"
              /\ calls[c].ret.order.TotalAmount = RequestTotal(calls[c].items)
              /\ calls[c].ret.order.ID \in DOMAIN orders
              /\ orders[calls[c].ret.order.ID] = calls[c].ret.order

C3_Witness ==
    \E c \in Callers :
        /\ Finished(c)
        /\ calls[c].ret.err = "none"
        /\ Len(calls[c].items) = 2
        /\ calls[c].items[1].ProductID # calls[c].items[2].ProductID
        /\ calls[c].ret.order.TotalAmount = 1350

\* C4 as claimed: any missing product in the list gives a not-found error.
C4_Original ==
    \A c \in Callers :
        (Finished(c) /\ \E i \in 1..Len(calls[c].items) : MissingProduct(calls[c].items[i]))
           => /\ calls[c].ret = ErrorReturn("product_not_found")
              /\ NoOrderStoredBy(c)
              /\ NoEventBy(c)

\* C4 (amended): a list with a missing product makes CreateOrder fail with
\* nothing stored and nothing published; the error is the one of the first
\* offending item: not-found, unless an earlier item exceeds its stock.
C4_MissingProductFails ==
    \A c \in Callers :
        (Finished(c) /\ \E i \in 1..Len(calls[c].items) : MissingProduct(calls[c].items[i]))
           => /\ calls[c].ret =
                    ErrorReturn(IF MissingProduct(calls[c].items[FirstOffending(calls[c].items)])
                                   THEN "product_not_found" ELSE "insufficient_stock")
              /\ NoOrderStoredBy(c)
              /\ NoEventBy(c)

C4_Witness ==
    \E c \in Callers :
        /\ Finished(c)
        /\ Len(calls[c].items) = 2
        /\ ~Offending(calls[c].items[1])
        /\ MissingProduct(calls[c].items[2])
        /\ calls[c].ret = ErrorReturn("product_not_found")

\* C5 as claimed: any over-stock item gives an insufficient-stock error.
C5_Original ==
    \A c \in Callers :
        (Finished(c) /\ \E i \in 1..Len(calls[c].items) : OverStock(calls[c].items[i]))
           => /\ calls[c].ret = ErrorReturn("insufficient_stock")
              /\ NoOrderStoredBy(c)
              /\ NoEventBy(c)

\* C5 (amended): a list with an over-stock item makes CreateOrder fail with
\* nothing stored and nothing published; the error is the one of the first
\* offending item: insufficient-stock, unless an earlier item is missing.
C5_OverStockFails ==
    \A c \in Callers :
        (Finished(c) /\ \E i \in 1..Len(calls[c].items) : OverStock(calls[c].items[i]))
           => /\ calls[c].ret =
                    ErrorReturn(IF OverStock(calls[c].items[FirstOffending(calls[c].items)])
                                   THEN "insufficient_stock" ELSE "product_not_found")
              /\ NoOrderStoredBy(c)
              /\ NoEventBy(c)

C5_Witness ==
    \E c \in Callers :
        /\ Finished(c)
        /\ Len(calls[c].items) = 2
        /\ ~Offending(calls[c].items[1])
        /\ OverStock(calls[c].items[2])
        /\ calls[c].ret = ErrorReturn("insufficient_stock")

\* The broker still holds message m: ready in the consumer's queue, or
\* delivered and not yet acknowledged.
HeldByBroker(m) ==
    \/ /\ ConsumerQueue \in DOMAIN queues
       /\ \E i \in 1..Len(queues[ConsumerQueue]) : MsgOf(queues[ConsumerQueue][i]) = m
    \/ \E i \in 1..Len(unacked) : MsgOf(unacked[i]) = m

Acks(m) ==
    Cardinality({i \in 1..Len(settleLog) :
        settleLog[i].msg = m /\ settleLog[i].kind \in {"ack", "auto"} /\ settleLog[i].ok})

HandlerRuns(m) == Cardinality({i \in 1..Len(handlerLog) : handlerLog[i].msg = m})

Deliveries(m) == Cardinality({i \in 1..Len(deliveryLog) : deliveryLog[i].msg = m})

\* An ack or a nack was issued (or, with auto-ack, made by the broker) for
\* the delivery tagged t.
Settled(t) == \E i \in 1..Len(settleLog) : settleLog[i].tag = t

\* C6 as claimed: with a handler that always succeeds, a message whose
\* handler has returned was acknowledged exactly once, was handled exactly
\* once, was delivered once and is not back in the queue.
C6_Original ==
    handlerMode = "always_ok" =>
        \A i \in 1..Len(handlerLog) :
            handlerLog[i].state = "ok" =>
                /\ Acks(handlerLog[i].msg) = 1
                /\ HandlerRuns(handlerLog[i].msg) = 1
                /\ Deliveries(handlerLog[i].msg) = 1
                /\ ~HeldByBroker(handlerLog[i].msg)

\* C7 as claimed: with a handler that always fails, a message whose handler
\* has returned was nacked and is still held by the broker (never dropped).
C7_Original ==
    handlerMode = "always_fail" =>
        \A i \in 1..Len(handlerLog) :
            handlerLog[i].state = "failed" =>
                /\ \E j \in 1..Len(settleLog) :
                      settleLog[j].tag = handlerLog[i].tag /\ settleLog[j].kind = "nack"
                /\ HeldByBroker(handlerLog[i].msg)

\* C8 as claimed: a delivered message the broker no longer holds is one
\* whose handler returned success.
C8_Original ==
    \A i \in 1..Len(deliveryLog) :
        ~HeldByBroker(deliveryLog[i].msg) =>
            \E j \in 1..Len(handlerLog) :
                handlerLog[j].msg = deliveryLog[i].msg /\ handlerLog[j].state = "ok"

\* C9: at most one handler invocation is running; the n-th invocation is
\* for the n-th delivery; and every invocation but the last has returned
\* and had its ack or nack issued before the next one started.
C9_SequentialInOrder ==
    /\ Cardinality({i \in 1..Len(handlerLog) : handlerLog[i].state = "running"}) <= 1
    /\ Len(handlerLog) <= Len(deliveryLog)
    /\ \A i \in 1..Len(handlerLog) :
          /\ handlerLog[i].tag = deliveryLog[i].tag
          /\ handlerLog[i].msg = deliveryLog[i].msg
          /\ i < Len(handlerLog) =>
                (handlerLog[i].state # "running" /\ Settled(handlerLog[i].tag))

C9_Witness ==
    /\ Len(handlerLog) >= 2
    /\ handlerLog[1].msg # handlerLog[2].msg
    /\ handlerLog[2].state = "running"
    /\ msgs # <<>>

\* C10 as claimed: the consumer's channel and the connection are never
\* closed while a handler invocation is running or its ack/nack is unsent.
C10_Original ==
    (conn = "closed" \/ channels[ConsumerChannel] = "closed") =>
        \A i \in 1..Len(handlerLog) :
            handlerLog[i].state # "running" /\ Settled(handlerLog[i].tag)

\* C11 as claimed: no publish runs on the channel a running consumer reads
\* from; the publish path and the consumer each have a channel of their own.
C11_Original ==
    \A i \in 1..Len(published) :
        published[i].consuming => published[i].channel # ConsumerChannel

\* C12: when NewClient has returned an error, no connection and no channel
\* is open: whatever it had acquired before the failing step is closed.
C12_ErrorReleasesAll ==
    mainPc = "fatal" =>
        /\ conn \in {"none", "closed"}
        /\ \A ch \in DOMAIN channels : channels[ch] \in {"none", "closed"}

\* NewClient failed at QueueDeclare, after connection and channel were open.
C12_Witness == mainPc = "fatal" /\ conn = "closed" /\ channels["client"] = "closed"

\* C13: an UpdateOrderStatus call with a status outside the five valid ones
\* returned the invalid-status error, did not call the repository and left
\* the order store as it was, for a stored and for an unknown id alike; no
\* stored order ever has a status outside the five.
C13_InvalidStatusRejected ==
    /\ (statusCall.made /\ statusCall.status \notin ValidStatuses) =>
          /\ statusCall.err = "invalid_status"
          /\ ~statusCall.repoCalled
          /\ ~statusCall.changed
    /\ \A id \in DOMAIN orders : orders[id].Status \in ValidStatuses

\* An invalid status was just refused for an order that is stored.
C13_Witness ==
    /\ statusCall.made
    /\ statusCall.status \notin ValidStatuses
    /\ statusCall.id \in DOMAIN orders
    /\ statusCall.err = "invalid_status"

\* The lifecycle: pending -> processing -> shipped -> delivered, and
\* cancelled from any of the three non-terminal statuses.
LifecycleStep(from, to) ==
    \/ from = "pending" /\ to = "processing"
    \/ from = "processing" /\ to = "shipped"
    \/ from = "shipped" /\ to = "delivered"
    \/ from \in {"pending", "processing", "shipped"} /\ to = "cancelled"

\* C14 as claimed: a successful UpdateOrderStatus call changed the stored
\* status by one step of the lifecycle.
C14_Original ==
    (statusCall.made /\ statusCall.err = "none" /\ statusCall.from # statusCall.status)
        => LifecycleStep(statusCall.from, statusCall.status)

\* C15 as claimed: every event the broker accepted from the publisher
\* while the consumer was running is routed to the queue the consumer reads
\* from, so that the consumer comes to receive it.
C15_Original ==
    \A i \in 1..Len(published) :
        published[i].consuming => ConsumerQueue \in RouteTo(published[i])

\* C16: the order stored under the id that CreateOrder returned keeps the
\* item prices and the total of the returned order, whatever product
\* updates, product deletions and status updates have happened since.
C16_PricesAndTotalKept ==
    \A c \in Callers :
        (Finished(c) /\ calls[c].ret.err = "none") =>
            LET o == calls[c].ret.order
            IN  /\ o.ID \in DOMAIN orders
                /\ orders[o.ID].TotalAmount = o.TotalAmount
                /\ Len(orders[o.ID].Items) = Len(o.Items)
                /\ \A i \in 1..Len(o.Items) :
                      /\ orders[o.ID].Items[i].ProductID = o.Items[i].ProductID
                      /\ orders[o.ID].Items[i].Price = o.Items[i].Price

\* An order of prod-1 at the seeded price, after prod-1 was repriced and
\* the order's status was updated.
C16_Witness ==
    \E c \in Callers :
        /\ Finished(c)
        /\ calls[c].ret.err = "none"
        /\ calls[c].ret.order.Items[1].ProductID = "prod-1"
        /\ calls[c].ret.order.Items[1].Price = SeedProducts["prod-1"].Price
        /\ "prod-1" \in DOMAIN products
        /\ products["prod-1"].Price # SeedProducts["prod-1"].Price
        /\ orders[calls[c].ret.order.ID].Status = "shipped"

\* C17 as claimed: every event the broker accepted was published in
\* persistent delivery mode, and the queue the consumer reads it from is
\* durable, so that it outlives a broker restart.
C17_Original ==
    \A i \in 1..Len(published) :
        /\ published[i].deliveryMode = "persistent"
        /\ ConsumerQueue \in DurableQueues

\* The request carries no Authorization header, one that is not
\* "Bearer <token>", or a token that was not issued by the service or has
\* expired.
Unauthenticated(header) ==
    \/ header = <<>>
    \/ Len(header) # 2
    \/ header[1] # "Bearer"
    \/ header[2] # IssuedToken

\* C18 as claimed: an unauthenticated request to an order route was
\* answered 401 and the order service was not called.
C18_Original ==
    (request.made /\ Unauthenticated(request.header)) =>
        (request.status = 401 /\ ~request.reached)

\* C19 as claimed: no two stored users share a username or an email, and a
\* RegisterUser call that returned an error stored no user.
C19_Original ==
    /\ \A i, j \in 1..Len(users) :
          i # j => (users[i].Username # users[j].Username /\ users[i].Email # users[j].Email)
    /\ \A c \in Callers :
          regs[c].err # "none" => \A i \in 1..Len(users) : users[i].by # c

\* C20 as claimed: GetByID answers as the map described by the writes so
\* far (a created product, with its last update, until it is deleted), and
\* an Update or Delete of an ID that is not stored returned a not-found
\* error and changed nothing.
C20_Original ==
    /\ \A id \in DOMAIN products \cup DOMAIN catalog \cup ProductIDInputs :
          ProductGetByID(id) =
             IF id \in DOMAIN catalog
                THEN [err |-> "none", product |-> catalog[id]]
                ELSE [err |-> "not_found", product |-> [ID |-> id, Price |-> 0, Stock |-> 0]]
    /\ (productCall.made /\ productCall.op \in {"update", "delete"} /\ ~productCall.stored)
          => (productCall.err = "not_found" /\ ~productCall.changed)

\* The projection of an Order that the event is meant to be.
ProjectionOf(order) ==
    [orderID |-> order.ID, userID |-> order.UserID,
     status |-> order.Status, total |-> order.TotalAmount]

\* Every event is the projection of the order its call built, that order is
\* in the store under the same ID, user and total, it is what the call
\* returned, and the event's status is "pending".
EventsProjectOrders ==
    \A i \in 1..Len(published) :
        LET e == published[i]
            o == calls[e.by].newOrder
        IN  /\ e.body = ProjectionOf(o)
            /\ e.body.status = "pending"
            /\ o.ID \in DOMAIN orders
            /\ orders[o.ID].ID = e.body.orderID
            /\ orders[o.ID].UserID = e.body.userID
            /\ orders[o.ID].TotalAmount = e.body.total
            /\ Finished(e.by) => calls[e.by].ret = [done |-> TRUE, err |-> "none", order |-> o]

\* The step in which a call stores its order writes exactly the order the
\* event is later built from; afterwards only Status is ever rewritten.
StoresWhatItPublishes ==
    /\ \A c \in Callers :
          (calls[c].pc = "validate" /\ calls'[c].pc = "publish")
             => /\ calls'[c].newOrder.ID \notin DOMAIN orders
                /\ calls'[c].newOrder.ID \in DOMAIN orders'
                /\ orders'[calls'[c].newOrder.ID] = calls'[c].newOrder
    /\ \A id \in DOMAIN orders :
          /\ id \in DOMAIN orders'
          /\ [orders'[id] EXCEPT !.Status = "pending"] = [orders[id] EXCEPT !.Status = "pending"]

\* C21: the event published by CreateOrder is a projection of the order the
\* call stored and returned: orderID, userID, status and total equal the ID,
\* UserID, Status and TotalAmount of that order, and the status is "pending".
C21_EventProjectsOrder == []EventsProjectOrders /\ [][StoresWhatItPublishes]_vars

\* An event is out, its call has returned, and the stored order has since
\* been given another status by UpdateOrderStatus.
C21_Witness ==
    \E i \in 1..Len(published) :
        /\ Finished(published[i].by)
        /\ published[i].body.orderID \in DOMAIN orders
        /\ orders[published[i].body.orderID].Status = "shipped"
        /\ published[i].body.total > 0

\* Client.Close has returned.
CloseReturned == mainPc \in {"closed", "exited"}

\* The conn.Close() step of Client.Close, if it has run.
ConnCloseSteps == {i \in 1..Len(closeLog) : closeLog[i].step = "conn"}

\* C22: after Close returns no channel of the client's connection is open,
\* every channel was closed before the connection was closed, and the
\* connection is closed even when closing a channel failed.
C22_Original ==
    CloseReturned =>
        /\ conn = "closed"
        /\ OpenChannels = {}
        /\ \A i \in ConnCloseSteps : closeLog[i].open = {}

\* Every item of the list names a stored product and asks for at most its stock.
EachWithinStock(items) ==
    \A i \in 1..Len(items) :
        /\ items[i].ProductID \in DOMAIN products
        /\ items[i].Quantity <= products[items[i].ProductID].Stock

\* C23: stock is read but not reserved: a call whose items are each within
\* the stock succeeds whatever the stored orders already hold, and no call
\* changes a product's stock; so two calls for the same product can both
\* succeed with quantities that together exceed the stock.
C23_StockNotReserved ==
    /\ \A id \in DOMAIN products : products[id].Stock = SeedProducts[id].Stock
    /\ \A c \in Callers :
          (Finished(c) /\ EachWithinStock(calls[c].items))
             => /\ calls[c].ret.err = "none"
                /\ calls[c].ret.order.ID \in DOMAIN orders

\* Two calls have both succeeded for prod-1, each within its stock, and the
\* stored orders hold more of it than the stock.
C23_Witness ==
    /\ \A c \in Callers :
          /\ Finished(c)
          /\ calls[c].ret.err = "none"
          /\ QuantityIn(calls[c].items, "prod-1") \in 1..products["prod-1"].Stock
    /\ Cardinality(DOMAIN orders) = 2
    /\ OrderedQuantity("prod-1") > products["prod-1"].Stock

\* A step of CreateOrder or of UpdateOrderStatus.
OrderServiceStep == calls' # calls \/ statusCall' # statusCall

\* The product store: the rows and, with gorm, which of them are deleted.
ProductStoreKept == products' = products /\ softDeleted' = softDeleted

\* C24: CreateOrder and UpdateOrderStatus never mutate the product store:
\* no step of either, successful or failed, changes a product's stock,
\* price or existence.
C24_ProductStoreKept == [][OrderServiceStep => ProductStoreKept]_vars

\* A CreateOrder call has stored its order and a status update has
\* succeeded on it; prod-1 is still stocked as seeded.
C24_Witness ==
    /\ \E c \in StoreCallers : Finished(c) /\ calls[c].ret.err = "none"
    /\ statusCall.made /\ statusCall.err = "none"
    /\ "prod-1" \in DOMAIN products
    /\ products["prod-1"].Stock = SeedProducts["prod-1"].Stock

\* An order without the two fields a status update may write.
BesidesStatus(order) == [order EXCEPT !.Status = "", !.UpdatedAt = 0]

\* What a step of UpdateOrderStatus(id, status) does to the order store
\* and to the broker.
StatusUpdateEffect ==
    LET id == statusCall'.id
    IN  /\ published' = published
        /\ queues' = queues
        /\ DOMAIN orders' = DOMAIN orders
        /\ \A o \in DOMAIN orders : o # id => orders'[o] = orders[o]
        /\ statusCall'.err = "none"
              => /\ IsValidStatus(statusCall'.status)
                 /\ id \in DOMAIN orders
                 /\ orders'[id].Status = statusCall'.status
                 /\ BesidesStatus(orders'[id]) = BesidesStatus(orders[id])
        /\ statusCall'.err # "none" => orders' = orders
        /\ id \notin DOMAIN orders => statusCall'.err # "none"

\* C25: a successful UpdateOrderStatus(id, s) changes only the Status and
\* UpdatedAt of the order with that id; its ID, user, items, total and
\* CreatedAt and every other order are unchanged and no event is published;
\* for an id that is not stored it fails and the store is unchanged.
C25_OnlyStatusAndUpdatedAt == [][statusCall' # statusCall => StatusUpdateEffect]_vars

\* A status update has succeeded on a stored order after the clock moved on:
\* the order is shipped, updated later than it was created.
C25_Witness ==
    /\ statusCall.made /\ statusCall.err = "none" /\ statusCall.status = "shipped"
    /\ statusCall.id \in DOMAIN orders
    /\ orders[statusCall.id].Status = "shipped"
    /\ orders[statusCall.id].UpdatedAt > orders[statusCall.id].CreatedAt
    /\ \E o \in DOMAIN orders : o # statusCall.id /\ orders[o].Status = "pending"
    /\ Len(published) > 0

\* Two requests agree on UserID and on the (ProductID, Quantity) of each item.
SameAsked(c1, c2) ==
    /\ calls[c1].userID = calls[c2].userID
    /\ Len(calls[c1].items) = Len(calls[c2].items)
    /\ \A i \in 1..Len(calls[c1].items) :
          /\ calls[c1].items[i].ProductID = calls[c2].items[i].ProductID
          /\ calls[c1].items[i].Quantity = calls[c2].items[i].Quantity

\* The two orders have the same items, total and status.
SameOrder(o1, o2) ==
    /\ o1.Items = o2.Items
    /\ o1.TotalAmount = o2.TotalAmount
    /\ o1.Status = o2.Status

\* C26: the stored order's ID, status, total and item prices do not depend
\* on any ID, Status, TotalAmount or item Price of the request: two requests
\* that agree on UserID and on each item's (ProductID, Quantity) end alike,
\* with orders of the same items, total and status, under generated IDs.
C26_SuppliedFieldsIgnored ==
    /\ \A c1, c2 \in Callers :
          (Finished(c1) /\ Finished(c2) /\ SameAsked(c1, c2))
             => /\ calls[c1].ret.err = calls[c2].ret.err
                /\ SameOrder(calls[c1].ret.order, calls[c2].ret.order)
                /\ calls[c1].ret.err = "none"
                      => SameOrder(orders[calls[c1].ret.order.ID],
                                   orders[calls[c2].ret.order.ID])
    /\ \A id \in DOMAIN orders :
          /\ id \in 1..nextUUID
          /\ orders[id].ID = id
          /\ orders[id].Status = "pending"
          /\ \A i \in 1..Len(orders[id].Items) :
                orders[id].Items[i].Price = products[orders[id].Items[i].ProductID].Price

\* Two requests for the same user and item have both stored an order; one
\* sent an ID, a Status, a TotalAmount and an item Price, the other none.
C26_Witness ==
    /\ \A c \in Callers : Finished(c) /\ calls[c].ret.err = "none"
    /\ SameAsked("c1", "c2")
    /\ calls["c1"].supplied = NoSupplied /\ calls["c1"].items[1].Price = 0
    /\ calls["c2"].supplied.Status = "delivered" /\ calls["c2"].items[1].Price = 1
    /\ Cardinality(DOMAIN orders) = 2

\* The request of the call contains an item whose quantity is zero or negative.
AsksNonPositive(c) ==
    \E i \in 1..Len(calls[c].items) : calls[c].items[i].Quantity <= 0

\* C27: every stored order has at least one item, every item quantity is
\* positive, every unit price and the total are non-negative; a request with
\* an item of quantity zero or less never results in a stored order.
C27_Original ==
    /\ \A id \in DOMAIN orders :
          /\ Len(orders[id].Items) >= 1
          /\ \A i \in 1..Len(orders[id].Items) :
                /\ orders[id].Items[i].Quantity > 0
                /\ orders[id].Items[i].Price >= 0
          /\ orders[id].TotalAmount >= 0
    /\ \A c \in Callers : AsksNonPositive(c) => NoOrderStoredBy(c)

\* The delivery with the tag has been passed to the handler, or waits in
\* the deliveries channel.
PassedOrWaiting(t) ==
    \/ \E j \in 1..Len(handlerLog) : handlerLog[j].tag = t
    \/ \E j \in 1..Len(msgs) : msgs[j].tag = t

\* C28: ConsumeOrderEvents fails only before it streams (channel, queue or
\* consumer registration); once streaming, a handler error or a failed ack
\* or nack is not returned and does not stop the loop, which ends only with
\* its channel: every delivery is passed to the handler or waits for it.
C28_FailuresArePerMessage ==
    /\ consumerPc = "failed" => (loop.pc = "none" /\ deliveryLog = <<>>)
    /\ deliveryLog # <<>> => consumerPc = "streaming"
    /\ loop.pc = "exited" => channels[ConsumerChannel] = "closed"
    /\ loop.pc # "exited" => \A i \in 1..Len(deliveryLog) : PassedOrWaiting(deliveryLog[i].tag)

\* The handler failed on a delivery, the nack was sent, and the message,
\* delivered again afterwards, has been passed to the handler; the consumer
\* is still streaming.
C28_Witness ==
    /\ consumerPc = "streaming"
    /\ Len(handlerLog) >= 2
    /\ handlerLog[1].state = "failed"
    /\ \E j \in 2..Len(handlerLog) :
          \E i \in 1..Len(deliveryLog) :
              /\ deliveryLog[i].tag = handlerLog[j].tag
              /\ deliveryLog[i].redelivered
    /\ loop.pc # "exited"

\* The calls that returned an order, and the IDs they returned.
Succeeded == {c \in Callers : Finished(c) /\ calls[c].ret.err = "none"}

ReturnedIDs == {calls[c].ret.order.ID : c \in Succeeded}

\* The IDs of orders saved by calls that have not returned yet.
InFlightIDs == {calls[c].newOrder.ID : c \in {k \in Callers : calls[k].pc = "publish"}}

\* The stored IDs are those returned by successful calls (and those of
\* calls that saved and have yet to return), one per call, and each is
\* retrievable under its ID.
StoredAreReturned ==
    /\ DOMAIN orders = ReturnedIDs \cup InFlightIDs
    /\ Cardinality(ReturnedIDs) = Cardinality(Succeeded)
    /\ ReturnedIDs \cap InFlightIDs = {}
    /\ \A id \in DOMAIN orders :
          /\ OrderRepoGetByID(id).err = "none"
          /\ OrderRepoGetByID(id).order.ID = id
          /\ OrderRepoGetByID(id).order.UserID = calls[createdBy[id]].userID

\* No step removes an order or replaces it: a step adds at most one ID and
\* rewrites at most Status and UpdatedAt of the stored orders.
NeverDeletedOrReplaced ==
    /\ DOMAIN orders \subseteq DOMAIN orders'
    /\ Cardinality(DOMAIN orders') <= Cardinality(DOMAIN orders) + 1
    /\ \A id \in DOMAIN orders : BesidesStatus(orders'[id]) = BesidesStatus(orders[id])

\* C29: orders are never deleted or replaced: the stored IDs are exactly
\* the IDs returned by successful CreateOrder calls, each call added one
\* new ID, and every such order is retrievable by GetOrderByID.
C29_NeverDeleted == []StoredAreReturned /\ [][NeverDeletedOrReplaced]_vars

\* Two concurrent calls have both returned, two orders are stored, and one
\* of them has had its status updated.
C29_Witness ==
    /\ Succeeded = Callers
    /\ Cardinality(DOMAIN orders) = 2
    /\ DOMAIN orders = ReturnedIDs
    /\ \E id \in DOMAIN orders : orders[id].Status = "shipped"

\* The process or a request of it has ended in a panic.
Crashed == mainPc = "crashed" \/ \E c \in Callers : calls[c].pc \in {"panicked", "killed"}

\* C30: with a nil broker client, CreateOrder with a valid request skips the
\* publication, stores the order and returns it with a nil error; it never
\* fails or crashes because the client is absent.
C30_Original ==
    mqClientNil =>
        /\ ~Crashed
        /\ published = <<>>
        /\ \A c \in Callers :
              (calls[c].pc \in {"publish", "done", "panicked"} /\ EachWithinStock(calls[c].items))
                 => /\ calls[c].newOrder.ID \in DOMAIN orders
                    /\ Finished(c) => /\ calls[c].ret.err = "none"
                                       /\ calls[c].ret.order = calls[c].newOrder
                                       /\ calls[c].pub = "skipped"
====
